---- MODULE Spec2Model ----
(***************************************************************************)
(* FlatTransferFunctionOnTheta (modules/FlatTransferFunctionOnTheta.cc):   *)
(* a MoMEMta module that maps one phase-space point u to the polar angle   *)
(* pi*u, rebuilds the reconstructed particle's four-momentum with that     *)
(* polar angle, and reports the constant weight pi.                        *)
(*                                                                         *)
(* Arithmetic.  The doubles of the program are modelled as exact numbers   *)
(* of the form (a + b*sqrt(2) + p*pi) / d with integer a, b, p and d > 0.  *)
(* On the grid of angles k*pi/4 the sine and cosine are exact in that      *)
(* form (0, +-1, +-sqrt(2)/2), and so are all the products the module      *)
(* forms, the square roots LorentzVector::P() and Pt() take and the        *)
(* arctangents Phi() and Theta() take.  Rounding of doubles is outside     *)
(* the model: what is checked is the arithmetic the code writes down.      *)
(***************************************************************************)
EXTENDS Integers, FiniteSets, Sequences, TLC

(***************************************************************************)
(* Bounds of the model.                                                    *)
(***************************************************************************)
\* input momentum magnitudes are 0 .. MaxMag
MaxMag == 1
\* the sampled scalar ranges over k/4 for k in -MaxOut .. 4 + MaxOut,
\* so MaxOut quarter steps beyond each end of [0,1]
MaxOut == 1

(***************************************************************************)
(* Exact numbers (a + b*sqrt(2) + p*pi) / d.                               *)
(***************************************************************************)
Abs(n) == IF n < 0 THEN -n ELSE n

RECURSIVE Gcd(_, _)
Gcd(m, n) == IF n = 0 THEN m ELSE Gcd(n, m % n)

\* the number (a + b*sqrt(2) + p*pi) / d in lowest terms, d > 0
Num(a, b, p, d) ==
    LET g == Gcd(Gcd(Gcd(Abs(d), Abs(a)), Abs(b)), Abs(p))
        s == IF d < 0 THEN -1 ELSE 1
    IN  [a |-> (s * a) \div g, b |-> (s * b) \div g,
         p |-> (s * p) \div g, d |-> (s * d) \div g]

Rat(n, d) == Num(n, 0, 0, d)
Int2Num(n) == Num(n, 0, 0, 1)
Zero == Int2Num(0)
One == Int2Num(1)

Add(x, y) == Num(x.a * y.d + y.a * x.d, x.b * y.d + y.b * x.d,
                 x.p * y.d + y.p * x.d, x.d * y.d)
Neg(x) == Num(-x.a, -x.b, -x.p, x.d)
Sub(x, y) == Add(x, Neg(y))

\* The product.  It stays in the number form when no pi meets a sqrt(2) or
\* another pi, which is the case for every product the module forms: pi is
\* only ever multiplied by the rational phase-space point.
Mul(x, y) == Num(x.a * y.a + 2 * x.b * y.b, x.a * y.b + x.b * y.a,
                 x.a * y.p + x.p * y.a, x.d * y.d)

\* sign of a pi-free number: compare a with -b*sqrt(2)
Sign(x) ==
    IF x.a >= 0 /\ x.b >= 0 THEN (IF x.a = 0 /\ x.b = 0 THEN 0 ELSE 1)
    ELSE IF x.a <= 0 /\ x.b <= 0 THEN -1
    ELSE IF x.a > 0 THEN (IF x.a * x.a > 2 * x.b * x.b THEN 1 ELSE -1)
    ELSE (IF 2 * x.b * x.b > x.a * x.a THEN 1 ELSE -1)

\* M_PI of <cmath>
M_PI == Num(0, 0, 1, 1)

\* the angle k*pi/4
QuarterPi(k) == Num(0, 0, k, 4)

\* std::sin at a multiple of pi/4: the index k with x = k*pi/4, modulo a turn
SinTable(k) ==
    CASE k = 0 -> Zero
      [] k = 1 -> Num(0, 1, 0, 2)
      [] k = 2 -> One
      [] k = 3 -> Num(0, 1, 0, 2)
      [] k = 4 -> Zero
      [] k = 5 -> Num(0, -1, 0, 2)
      [] k = 6 -> Int2Num(-1)
      [] k = 7 -> Num(0, -1, 0, 2)

\* std::sin and std::cos of a multiple x of pi/4
Sin(x) == SinTable(((x.p * 4) \div x.d) % 8)
Cos(x) == SinTable(((x.p * 4) \div x.d + 2) % 8)

\* the non-negative square root, where it is of the form (a + b*sqrt(2))/d
Roots == { Num(a, b, 0, d) : a \in 0 .. (2 * (MaxMag + 1)),
                            b \in 0 .. (2 * (MaxMag + 1)), d \in {1, 2} }
Sqrt(x) == CHOOSE r \in Roots : Mul(r, r) = x

\* std::atan2(y, x) in (-pi, pi], where it is a multiple of pi/4:
\* the direction k*pi/4 is parallel to (x, y) and points the same way
Atan2(y, x) ==
    IF x = Zero /\ y = Zero THEN Zero
    ELSE QuarterPi(CHOOSE k \in -3 .. 4 :
            /\ Sub(Mul(x, Sin(QuarterPi(k))), Mul(y, Cos(QuarterPi(k)))) = Zero
            /\ Sign(Add(Mul(x, Cos(QuarterPi(k))), Mul(y, Sin(QuarterPi(k))))) = 1)

(***************************************************************************)
(* LorentzVector = ROOT::Math::LorentzVector<PxPyPzE4D<double>>            *)
(***************************************************************************)
SetCoordinates(px, py, pz, e) == [x |-> px, y |-> py, z |-> pz, t |-> e]

Pt(v) == Sqrt(Add(Mul(v.x, v.x), Mul(v.y, v.y)))
P(v) == Sqrt(Add(Add(Mul(v.x, v.x), Mul(v.y, v.y)), Mul(v.z, v.z)))
Phi(v) == IF v.x = Zero /\ v.y = Zero THEN Zero ELSE Atan2(v.y, v.x)
Theta(v) == IF v.x = Zero /\ v.y = Zero /\ v.z = Zero THEN Zero
            ELSE Atan2(Pt(v), v.z)
E(v) == v.t

(***************************************************************************)
(* The inputs the host may supply.                                         *)
(***************************************************************************)
\* the four-momentum of magnitude m, polar angle t*pi/4, azimuth f*pi/4
\* and energy e, in Cartesian coordinates
Particle(m, t, f, e) ==
    SetCoordinates(
        Mul(Mul(Int2Num(m), Sin(QuarterPi(t))), Cos(QuarterPi(f))),
        Mul(Mul(Int2Num(m), Sin(QuarterPi(t))), Sin(QuarterPi(f))),
        Mul(Int2Num(m), Cos(QuarterPi(t))),
        Int2Num(e))

Particles == { Particle(m, t, f, m + 1) :
                 m \in 0 .. MaxMag, t \in 0 .. 4, f \in -3 .. 4 }

\* phase-space points: the quarters of [0,1] and MaxOut quarters beyond
Points == { Rat(k, 4) : k \in (0 - MaxOut) .. (4 + MaxOut) }

InUnitInterval(u) == Sign(u) >= 0 /\ Sign(Sub(One, u)) >= 0

ZeroVector == SetCoordinates(Zero, Zero, Zero, Zero)

(***************************************************************************)
(* State.                                                                  *)
(***************************************************************************)
VARIABLES
    \* one module instance driven by one evaluation thread
    ps_point,           \* the double m_ps_point resolves to
    reco_particle,      \* the LorentzVector m_input resolves to
    output,             \* *output, produced as "output"
    TF_times_jacobian,  \* *TF_times_jacobian, produced as "TF_times_jacobian"
    status,             \* what work() returned for the current sample point,
                        \* "none" while work() has not run on it
    dims,               \* the values dimensions() has returned so far
    seen,               \* what the host recorded of one finished invocation:
                        \* <<>> or <<[u, p, out, w, later]>>, later telling
                        \* that another (u, p) has been sampled since
    \* one module instance and pool per evaluation thread, work() step by step
    t_ps_point,         \* thread -> its pool's phase-space point
    t_reco_particle,    \* thread -> its pool's input LorentzVector
    t_new_theta,        \* frame -> the local new_theta of the invocation there
    t_output,           \* thread -> its pool's "output"
    t_TF_times_jacobian,\* thread -> its pool's "TF_times_jacobian"
    t_pc                \* thread -> the statement of work() it is at

seqvars == <<ps_point, reco_particle, output, TF_times_jacobian, status, dims, seen>>
thrvars == <<t_ps_point, t_reco_particle, t_new_theta, t_output,
             t_TF_times_jacobian, t_pc>>
vars == <<seqvars, thrvars>>

(***************************************************************************)
(* FlatTransferFunctionOnTheta                                             *)
(***************************************************************************)
\* mutant: the unit interval mapped onto [0, 2 pi]
new_theta_fullTurn(point) == Mul(Mul(Int2Num(2), M_PI), point)

\* const double new_theta = M_PI*ps_point;
new_theta(point) == Mul(M_PI, point)

\* mutant: sine and cosine of phi exchanged between x and y
Coordinates_swapped(theta, reco) ==
    SetCoordinates(
        Mul(Mul(P(reco), Sin(theta)), Sin(Phi(reco))),
        Mul(Mul(P(reco), Sin(theta)), Cos(Phi(reco))),
        Mul(P(reco), Cos(theta)),
        E(reco))

\* mutant: the transverse momentum Pt() taken for the magnitude P()
Coordinates_transverse(theta, reco) ==
    SetCoordinates(
        Mul(Mul(Pt(reco), Sin(theta)), Cos(Phi(reco))),
        Mul(Mul(Pt(reco), Sin(theta)), Sin(Phi(reco))),
        Mul(Pt(reco), Cos(theta)),
        E(reco))

\* mutant: the x line copied to y with its cosine of phi left in place
Coordinates_copied(theta, reco) ==
    SetCoordinates(
        Mul(Mul(P(reco), Sin(theta)), Cos(Phi(reco))),
        Mul(Mul(P(reco), Sin(theta)), Cos(Phi(reco))),
        Mul(P(reco), Cos(theta)),
        E(reco))

\* the arguments of output->SetCoordinates(...), given new_theta
Coordinates(theta, reco) ==
    SetCoordinates(
        Mul(Mul(P(reco), Sin(theta)), Cos(Phi(reco))),
        Mul(Mul(P(reco), Sin(theta)), Sin(Phi(reco))),
        Mul(P(reco), Cos(theta)),
        E(reco))

\* mutant: the transfer function alone, without the jacobian
Jacobian_one == One

\* mutant: += for =, the weight added to what the slot held
Jacobian_accumulated == Add(TF_times_jacobian, M_PI)

\* *TF_times_jacobian = M_PI;
Jacobian == M_PI

\* mutant: a sample point outside [0,1] rejected
WorkStatus_checked(point, reco) ==
    IF InUnitInterval(point) THEN "OK" ELSE "ABORT"

\* return Status::OK;
WorkStatus(point, reco) == "OK"

\* mutant: one dimension counted per input
dimensions_perInput == Cardinality({"ps_point", "reco_particle"})

\* size_t dimensions() const { return 1; }
dimensions == 1

\* After construction and binding: the produced slots hold default-constructed
\* values, the input tags resolve to storage the host has filled, work() has
\* not run.
InitSeq(inputs) ==
    /\ \E i \in inputs : ps_point = i[1] /\ reco_particle = i[2]
    /\ output = ZeroVector
    /\ TF_times_jacobian = Zero
    /\ status = "none"
    /\ dims = {}
    /\ seen = <<>>

\* The host stores the next sample point and reconstructed particle in the
\* storage the two input tags resolve to; it does so once work() has run on
\* the point before.
Sample(u, p) ==
    /\ status = "OK"
    /\ ps_point' = u
    /\ reco_particle' = p
    /\ status' = "none"
    /\ seen' = IF seen # <<>> /\ <<u, p>> # <<seen[1].u, seen[1].p>>
               THEN <<[seen[1] EXCEPT !.later = TRUE]>>
               ELSE seen
    /\ UNCHANGED <<output, TF_times_jacobian, dims, thrvars>>

\* mutant: the input vector rotated in place as well
Work_inPlace ==
    /\ output' = Coordinates(new_theta(ps_point), reco_particle)
    /\ reco_particle' = Coordinates(new_theta(ps_point), reco_particle)
    /\ TF_times_jacobian' = Jacobian
    /\ status' = WorkStatus(ps_point, reco_particle)
    /\ UNCHANGED <<ps_point, dims, seen, thrvars>>

\* Status work()
Work ==
    /\ output' = Coordinates(new_theta(ps_point), reco_particle)
    /\ TF_times_jacobian' = Jacobian
    /\ status' = WorkStatus(ps_point, reco_particle)
    /\ UNCHANGED <<ps_point, reco_particle, dims, seen, thrvars>>

\* the host asks for the module's dimensions
Dimensions ==
    /\ dims' = dims \cup {dimensions}
    /\ UNCHANGED <<ps_point, reco_particle, output, TF_times_jacobian, status,
                   seen, thrvars>>

\* the host records the inputs and outputs of the invocation that just returned
Observe ==
    /\ status = "OK"
    /\ seen' = <<[u |-> ps_point, p |-> reco_particle,
                  out |-> output, w |-> TF_times_jacobian, later |-> FALSE]>>
    /\ UNCHANGED <<ps_point, reco_particle, output, TF_times_jacobian, status,
                   dims, thrvars>>

(***************************************************************************)
(* Several evaluation threads, each with its own pool and module instance. *)
(***************************************************************************)
NThreads == 2
Threads == 1 .. NThreads

\* mutant: new_theta declared static, one copy for all invocations
FrameOf_static(t) == 1

\* new_theta is an automatic variable: each invocation has its own
FrameOf(t) == t

InitThr(inputs) ==
    /\ \E f \in [Threads -> inputs] :
          /\ t_ps_point = [t \in Threads |-> f[t][1]]
          /\ t_reco_particle = [t \in Threads |-> f[t][2]]
    /\ t_new_theta = [t \in Threads |-> Zero]
    /\ t_output = [t \in Threads |-> ZeroVector]
    /\ t_TF_times_jacobian = [t \in Threads |-> Zero]
    /\ t_pc = [t \in Threads |-> "theta"]

\* const double new_theta = M_PI*ps_point;
T_Theta(t) ==
    /\ t_pc[t] = "theta"
    /\ t_new_theta' = [t_new_theta EXCEPT ![FrameOf(t)] = new_theta(t_ps_point[t])]
    /\ t_pc' = [t_pc EXCEPT ![t] = "set"]
    /\ UNCHANGED <<t_ps_point, t_reco_particle, t_output, t_TF_times_jacobian, seqvars>>

\* output->SetCoordinates(...);
T_SetCoordinates(t) ==
    /\ t_pc[t] = "set"
    /\ t_output' = [t_output EXCEPT
                      ![t] = Coordinates(t_new_theta[FrameOf(t)], t_reco_particle[t])]
    /\ t_pc' = [t_pc EXCEPT ![t] = "weight"]
    /\ UNCHANGED <<t_ps_point, t_reco_particle, t_new_theta, t_TF_times_jacobian, seqvars>>

\* *TF_times_jacobian = M_PI;
T_Weight(t) ==
    /\ t_pc[t] = "weight"
    /\ t_TF_times_jacobian' = [t_TF_times_jacobian EXCEPT ![t] = Jacobian]
    /\ t_pc' = [t_pc EXCEPT ![t] = "return"]
    /\ UNCHANGED <<t_ps_point, t_reco_particle, t_new_theta, t_output, seqvars>>

\* return Status::OK;
T_Return(t) ==
    /\ t_pc[t] = "return"
    /\ t_pc' = [t_pc EXCEPT ![t] = "done"]
    /\ UNCHANGED <<t_ps_point, t_reco_particle, t_new_theta, t_output,
                   t_TF_times_jacobian, seqvars>>

\* the thread's host fills its pool with the next sample and calls work() again
T_Sample(t, u, p) ==
    /\ t_pc[t] = "done"
    /\ t_ps_point' = [t_ps_point EXCEPT ![t] = u]
    /\ t_reco_particle' = [t_reco_particle EXCEPT ![t] = p]
    /\ t_pc' = [t_pc EXCEPT ![t] = "theta"]
    /\ UNCHANGED <<t_new_theta, t_output, t_TF_times_jacobian, seqvars>>

(***************************************************************************)
(* Specifications.                                                         *)
(***************************************************************************)
AllInputs == Points \X Particles

\* a few inputs, for the specifications that remember or interleave
FewInputs == { <<Rat(1, 4), Particle(1, 2, 1, 2)>>,
               <<Rat(3, 4), Particle(1, 1, -2, 2)>>,
               <<Rat(1, 2), Particle(1, 2, 4, 1)>> }
HistInputs == {Rat(1, 4), Rat(1, 2), One}
              \X {Particle(1, 2, 1, 2), Particle(1, 1, -2, 2), Particle(0, 0, 0, 1)}

\* one evaluation thread, every input
Init == InitSeq(AllInputs) /\ InitThr({<<Zero, ZeroVector>>})
Next ==
    \/ \E i \in AllInputs : Sample(i[1], i[2])
    \/ Work
    \/ Dimensions
Spec == Init /\ [][Next]_vars

\* one evaluation thread whose host records an invocation
InitHist == InitSeq(HistInputs) /\ InitThr({<<Zero, ZeroVector>>})
NextHist ==
    \/ \E i \in HistInputs : Sample(i[1], i[2])
    \/ Work
    \/ Observe
SpecHist == InitHist /\ [][NextHist]_vars

\* NThreads evaluation threads
InitConc == InitSeq({<<Zero, ZeroVector>>}) /\ InitThr(FewInputs)
NextConc ==
    \E t \in Threads :
        \/ T_Theta(t)
        \/ T_SetCoordinates(t)
        \/ T_Weight(t)
        \/ T_Return(t)
        \/ \E i \in FewInputs : T_Sample(t, i[1], i[2])
SpecConc == InitConc /\ [][NextConc]_vars

(***************************************************************************)
(* Properties.                                                             *)
(***************************************************************************)
\* x is a pi-multiple in [0, pi]
InZeroPi(x) == x.a = 0 /\ x.b = 0 /\ 0 <= x.p /\ x.p <= x.d

\* 0 < u < 1
StrictlyInside(u) == Sign(u) = 1 /\ Sign(Sub(One, u)) = 1

\* C1: after work() on a sample point u in [0,1] and an input p, the output is
\* (|p| sin(pi u) cos(phi(p)), |p| sin(pi u) sin(phi(p)), |p| cos(pi u), E(p));
\* at u = 0 it is (0, 0, |p|, E(p)) and at u = 1 it is (0, 0, -|p|, E(p)).
C1_OutputCoordinates ==
    (status = "OK" /\ InUnitInterval(ps_point)) =>
        LET th  == Mul(M_PI, ps_point)
            mag == P(reco_particle)
            phi == Phi(reco_particle)
        IN  /\ output.x = Mul(mag, Mul(Sin(th), Cos(phi)))
            /\ output.y = Mul(mag, Mul(Sin(th), Sin(phi)))
            /\ output.z = Mul(mag, Cos(th))
            /\ output.t = E(reco_particle)
            /\ ps_point = Zero =>
                  output.x = Zero /\ output.y = Zero /\ output.z = mag
            /\ ps_point = One =>
                  output.x = Zero /\ output.y = Zero /\ output.z = Neg(mag)

\* work() has run at u = 1 on a particle with momentum off the z axis
C1_Witness ==
    /\ status = "OK"
    /\ ps_point = One
    /\ reco_particle.y # Zero
    /\ output.z = Neg(P(reco_particle))
    /\ output.z # Zero

\* C2: after work() on u in [0,1], the output's energy and momentum magnitude
\* are the input's.
C2_EnergyAndMagnitudeKept ==
    (status = "OK" /\ InUnitInterval(ps_point)) =>
        /\ E(output) = E(reco_particle)
        /\ P(output) = P(reco_particle)

\* work() has turned a particle with momentum into another direction
C2_Witness ==
    /\ status = "OK"
    /\ InUnitInterval(ps_point)
    /\ P(reco_particle) # Zero
    /\ output # reco_particle
    /\ P(output) = P(reco_particle)

\* C3 as stated: after work() on u in [0,1], ends included, the azimuth of the
\* output, taken from its Cartesian components, is the input's.
C3_AzimuthKeptOnClosedInterval ==
    (status = "OK" /\ InUnitInterval(ps_point)) =>
        Phi(output) = Phi(reco_particle)

\* C3 amended: after work() on u with 0 < u < 1, the azimuth of the output,
\* taken from its Cartesian components, is the input's.
C3_AzimuthKeptInside ==
    (status = "OK" /\ StrictlyInside(ps_point)) =>
        Phi(output) = Phi(reco_particle)

\* work() has run inside (0,1) on a particle with a non-zero azimuth
C3_Witness ==
    /\ status = "OK"
    /\ StrictlyInside(ps_point)
    /\ Phi(reco_particle) # Zero
    /\ Phi(output) = Phi(reco_particle)

\* C4 as stated: after work() on u in [0,1], whatever the input, the polar
\* angle of the output is pi*u and lies in [0, pi].
C4_PolarAngleForEveryInput ==
    (status = "OK" /\ InUnitInterval(ps_point)) =>
        /\ Theta(output) = Mul(M_PI, ps_point)
        /\ InZeroPi(Theta(output))

\* C4 amended: after work() on u in [0,1] and an input of non-zero momentum,
\* the polar angle of the output is pi*u and lies in [0, pi].
C4_PolarAngleForNonZeroMomentum ==
    (status = "OK" /\ InUnitInterval(ps_point) /\ P(reco_particle) # Zero) =>
        /\ Theta(output) = Mul(M_PI, ps_point)
        /\ InZeroPi(Theta(output))

\* work() has set a polar angle other than 0 and other than the input's
C4_Witness ==
    /\ status = "OK"
    /\ InUnitInterval(ps_point)
    /\ P(reco_particle) # Zero
    /\ Theta(output) = Mul(M_PI, ps_point)
    /\ Theta(output) # Zero
    /\ Theta(output) # Theta(reco_particle)

\* C5: whenever work() has run, TF_times_jacobian holds pi.
C5_WeightIsPi ==
    status = "OK" => TF_times_jacobian = Num(0, 0, 1, 1)

\* work() has run on a sample point outside [0,1]
C5_Witness ==
    /\ status = "OK"
    /\ ~InUnitInterval(ps_point)
    /\ TF_times_jacobian = Num(0, 0, 1, 1)

\* C6: every value dimensions() has returned is 1.
C6_DimensionsIsOne ==
    \A n \in dims : n = 1

\* dimensions() has been asked and work() has run
C6_Witness ==
    /\ dims # {}
    /\ status = "OK"

\* C7: work() returns Status::OK, also for sample points outside [0,1], and
\* such a point is used as it is: the output's z is |p| cos(pi u) for the u
\* given, not for the nearest end of [0,1].
C7_AlwaysOK ==
    /\ status # "none" => status = "OK"
    /\ (status = "OK" /\ ~InUnitInterval(ps_point)) =>
          output.z = Mul(P(reco_particle), Cos(Mul(M_PI, ps_point)))

\* work() has returned for a sample point outside [0,1]
C7_Witness ==
    /\ status = "OK"
    /\ ~InUnitInterval(ps_point)
    /\ P(reco_particle) # Zero
    /\ output.z # P(reco_particle)
    /\ output.z # Neg(P(reco_particle))

\* C8: a step in which work() returns leaves ps_point and reco_particle as they
\* were and leaves both outputs written with the values of this invocation.
C8_WritesOutputsOnly ==
    [][status' = "OK" =>
          /\ ps_point' = ps_point
          /\ reco_particle' = reco_particle
          /\ output'.t = E(reco_particle)
          /\ output'.z = Mul(P(reco_particle), Cos(Mul(M_PI, ps_point)))
          /\ TF_times_jacobian' = Num(0, 0, 1, 1)]_vars

\* work() has returned: both output slots hold values other than the default
\* ones, and the inputs are a point and a particle other than the default ones
C8_Witness ==
    /\ status = "OK"
    /\ output.z # Zero
    /\ TF_times_jacobian # Zero
    /\ ps_point # Zero
    /\ reco_particle.x # Zero

\* C9: an invocation on the (u, p) of a recorded earlier invocation produces
\* the recorded output and weight, whatever ran in between.
C9_SameInputsSameOutputs ==
    (/\ status = "OK"
     /\ seen # <<>>
     /\ seen[1].u = ps_point
     /\ seen[1].p = reco_particle) =>
        /\ output = seen[1].out
        /\ TF_times_jacobian = seen[1].w

\* the recorded (u, p) has been run again after work() ran on another input
C9_Witness ==
    /\ status = "OK"
    /\ seen # <<>>
    /\ seen[1].later
    /\ seen[1].u = ps_point
    /\ seen[1].p = reco_particle
    /\ output = seen[1].out

\* C10: under every interleaving, a thread whose work() has returned holds the
\* outputs of a sequential invocation on its own (u, p).
C10_ThreadsDoNotInterfere ==
    \A t \in Threads :
        t_pc[t] = "done" =>
            /\ t_output[t] =
                  Coordinates(Mul(M_PI, t_ps_point[t]), t_reco_particle[t])
            /\ t_TF_times_jacobian[t] = Num(0, 0, 1, 1)

\* two threads have finished on different inputs with different outputs
C10_Witness ==
    /\ \A t \in Threads : t_pc[t] = "done"
    /\ \E s, t \in Threads :
          /\ t_ps_point[s] # t_ps_point[t]
          /\ t_output[s] # t_output[t]

====
